---- MODULE Spec2Model ----
(***************************************************************************)
(* Model of the agentic RAG workflow of src/agentic_rag.py: the AgentState *)
(* record, the five nodes (analyze_query, retrieve_documents, web_search,  *)
(* check_quality, generate_answer), the routing functions, the graph built *)
(* by _build_workflow, and the public methods add_documents and ask.       *)
(*                                                                         *)
(* Text that the code inspects character by character (the classifier's    *)
(* response, which is stripped and lower-cased) is a sequence of           *)
(* one-character strings.  Text the code only copies (queries, documents,  *)
(* answers) is an atomic string.  Floats are fixed-point integers in units *)
(* of 1/One; the distances drawn are multiples of 6 units so that the mean *)
(* of one, two or three of them is exact.                                  *)
(***************************************************************************)
EXTENDS Integers, Sequences, FiniteSets, TLC

VARIABLES
    pc,        \* position of the ask call: idle, a node name, END, returned, failed
    state,     \* the AgentState threaded through the graph
    trace,     \* nodes executed so far in this run, in order
    store,     \* self.collection: sequence of [id, document]
    calls,     \* external calls issued so far in this run, in order; "raised"
               \* follows a call that raised
    prompt,    \* messages of the last answer request sent to the LLM
    analyzed,  \* the state analyze_query returned in this run
    reply,     \* the classifier's raw response in this run
    completion, \* the answer LLM's raw response in this run
    found,     \* what collection.query returned in this run
    result,    \* what ask returned to its caller
    writers,   \* concurrent add_documents calls: position and locals of each
    runs,      \* concurrent ask calls: position, state and inputs of each
    http       \* the HTTP response of the last api_server request

vars == <<pc, state, trace, store, calls, prompt, analyzed, reply, completion,
          found, result, writers, runs, http>>

\* what a step of the single ask run leaves alone
others == <<writers, runs, http>>

(***************************************************************************)
(* Bounds                                                                  *)
(***************************************************************************)
MaxStore == 4      \* documents the collection may hold
MaxBatch == 2      \* documents passed to one add_documents call

Docs == {"docA", "docB"}
Queries == {"q1", "q2"}
Answers == {"", "an answer"}
DistValues == {6, 42, 54, 90}   \* cosine distances 0.1, 0.7, 0.9, 1.5

(***************************************************************************)
(* Program constants                                                       *)
(***************************************************************************)
One == 60                          \* the float 1 of line 164, in units
N_RESULTS == 3                     \* n_results=3
LOW_CONFIDENCE == (3 * One) \div 10    \* 0.3
WEB_CONFIDENCE == One \div 2           \* 0.5

None == "None"
NoPrompt == [system |-> None, user |-> <<>>]

(***************************************************************************)
(* Strings as character sequences: str.strip() and str.lower()             *)
(***************************************************************************)
Whitespace == {" ", "\n", "\t", "\r"}

LowerMap ==
    [c \in {"A", "B", "C", "D", "E", "F", "G", "H", "I", "J", "K", "L", "M",
            "N", "O", "P", "Q", "R", "S", "T", "U", "V", "W", "X", "Y", "Z"} |->
        CASE c = "A" -> "a" [] c = "B" -> "b" [] c = "C" -> "c" [] c = "D" -> "d"
          [] c = "E" -> "e" [] c = "F" -> "f" [] c = "G" -> "g" [] c = "H" -> "h"
          [] c = "I" -> "i" [] c = "J" -> "j" [] c = "K" -> "k" [] c = "L" -> "l"
          [] c = "M" -> "m" [] c = "N" -> "n" [] c = "O" -> "o" [] c = "P" -> "p"
          [] c = "Q" -> "q" [] c = "R" -> "r" [] c = "S" -> "s" [] c = "T" -> "t"
          [] c = "U" -> "u" [] c = "V" -> "v" [] c = "W" -> "w" [] c = "X" -> "x"
          [] c = "Y" -> "y" [] c = "Z" -> "z"]

RECURSIVE lstrip(_)
lstrip(s) ==
    IF s # <<>> /\ Head(s) \in Whitespace THEN lstrip(Tail(s)) ELSE s

RECURSIVE rstrip(_)
rstrip(s) ==
    IF s # <<>> /\ s[Len(s)] \in Whitespace
    THEN rstrip(SubSeq(s, 1, Len(s) - 1))
    ELSE s

strip(s) == rstrip(lstrip(s))

lower(s) ==
    [i \in 1..Len(s) |-> IF s[i] \in DOMAIN LowerMap THEN LowerMap[s[i]] ELSE s[i]]

(***************************************************************************)
(* The five labels of the classification prompt, and the raw responses the *)
(* classifier LLM is taken to return.                                      *)
(***************************************************************************)
GREETING    == <<"g", "r", "e", "e", "t", "i", "n", "g">>
FACTUAL     == <<"f", "a", "c", "t", "u", "a", "l">>
CALCULATION == <<"c", "a", "l", "c", "u", "l", "a", "t", "i", "o", "n">>
GENERAL     == <<"g", "e", "n", "e", "r", "a", "l">>
WEB_CURRENT == <<"w", "e", "b", "_", "c", "u", "r", "r", "e", "n", "t">>

KnownLabels == {GREETING, FACTUAL, CALCULATION, GENERAL, WEB_CURRENT}

ClassifierResponses ==
    KnownLabels \cup
    { <<" ", "F", "a", "c", "t", "u", "a", "l", "\n">>,
      <<"G", "R", "E", "E", "T", "I", "N", "G">>,
      <<"W", "e", "b", "_", "C", "u", "r", "r", "e", "n", "t", " ">>,
      <<"\t", "G", "e", "n", "e", "r", "a", "l">>,
      <<"C", "a", "l", "c", "u", "l", "a", "t", "i", "o", "n", "\n">>,
      <<"f", "a", "c", "t", "u", "a", "l", ".">>,
      <<"F", "a", "c", "t", " ", "u", "a", "l">>,
      <<"o", "t", "h", "e", "r">>,
      <<>> }

(***************************************************************************)
(* Arithmetic helpers                                                      *)
(***************************************************************************)
RECURSIVE sum(_)
sum(xs) == IF xs = <<>> THEN 0 ELSE Head(xs) + sum(Tail(xs))

Min(a, b) == IF a < b THEN a ELSE b

(***************************************************************************)
(* ask: the initial state                                                  *)
(***************************************************************************)
initial_state(query) ==
    [ query            |-> query,
      query_type       |-> <<>>,
      needs_retrieval  |-> FALSE,
      needs_web_search |-> FALSE,
      retrieved_docs   |-> <<>>,
      web_results      |-> <<>>,
      answer           |-> "",
      confidence       |-> 0,
      reasoning        |-> <<>>,
      iteration        |-> 0 ]

(***************************************************************************)
(* NODE 1: analyze_query.  response is the content of the LLM's reply.     *)
(* The reasoning string is a sequence of sentences.                        *)
(***************************************************************************)
Note(text, arg) == [note |-> text, arg |-> arg]

\* variant: the response is trimmed but its case is kept
normalize_keeps_case(response) == strip(response)

normalize(response) == lower(strip(response))

\* variant: factual questions are also sent to the web
analyze_query_web_too(s, response) ==
    LET query_type      == normalize(response)
        needs_retrieval == query_type \in {FACTUAL}
        needs_web       == query_type \in {FACTUAL, WEB_CURRENT}
        reasoning ==
            << Note("Query classified as", query_type),
               IF needs_retrieval
               THEN Note("Will retrieve from knowledge base.", <<>>)
               ELSE IF needs_web
               THEN Note("Will search the web for current info.", <<>>)
               ELSE Note("Will generate answer directly.", <<>>) >>
    IN  [s EXCEPT !.query_type       = query_type,
                  !.needs_retrieval  = needs_retrieval,
                  !.needs_web_search = needs_web,
                  !.reasoning        = reasoning,
                  !.iteration        = s.iteration]

\* variant: analyze counts the pass it makes over the query
analyze_query_counts(s, response) ==
    LET query_type      == normalize(response)
        needs_retrieval == query_type \in {FACTUAL}
        needs_web       == query_type \in {WEB_CURRENT}
        reasoning ==
            << Note("Query classified as", query_type),
               IF needs_retrieval
               THEN Note("Will retrieve from knowledge base.", <<>>)
               ELSE IF needs_web
               THEN Note("Will search the web for current info.", <<>>)
               ELSE Note("Will generate answer directly.", <<>>) >>
    IN  [s EXCEPT !.query_type       = query_type,
                  !.needs_retrieval  = needs_retrieval,
                  !.needs_web_search = needs_web,
                  !.reasoning        = reasoning,
                  !.iteration        = s.iteration + 1]

analyze_query(s, response) ==
    LET query_type      == normalize(response)
        needs_retrieval == query_type \in {FACTUAL}
        needs_web       == query_type \in {WEB_CURRENT}
        reasoning ==
            << Note("Query classified as", query_type),
               IF needs_retrieval
               THEN Note("Will retrieve from knowledge base.", <<>>)
               ELSE IF needs_web
               THEN Note("Will search the web for current info.", <<>>)
               ELSE Note("Will generate answer directly.", <<>>) >>
    IN  [s EXCEPT !.query_type       = query_type,
                  !.needs_retrieval  = needs_retrieval,
                  !.needs_web_search = needs_web,
                  !.reasoning        = reasoning,
                  !.iteration        = s.iteration]

(***************************************************************************)
(* NODE 2: retrieve_documents.  count is collection.count(); results is    *)
(* what collection.query returns: one inner list per query embedding.      *)
(***************************************************************************)
\* variant: the sum of the distances is divided by the number asked for
retrieve_documents_fixed_mean(s, count, results) ==
    IF count = 0
    THEN [s EXCEPT !.retrieved_docs = <<>>, !.confidence = 0]
    ELSE LET docs      == IF results.documents # <<>>
                          THEN results.documents[1] ELSE <<>>
             distances == IF results.distances # <<>>
                          THEN results.distances[1] ELSE <<>>
             confidence == IF distances # <<>>
                           THEN One - (sum(distances) \div N_RESULTS)
                           ELSE 0
         IN  [s EXCEPT !.retrieved_docs = docs, !.confidence = confidence]

\* variant: retrieve appends a note of its own to the reasoning
retrieve_documents_noting(s, count, results) ==
    IF count = 0
    THEN [s EXCEPT !.retrieved_docs = <<>>, !.confidence = 0,
                   !.reasoning = s.reasoning \o << Note("Knowledge base is empty.", <<>>) >>]
    ELSE LET docs      == IF results.documents # <<>>
                          THEN results.documents[1] ELSE <<>>
             distances == IF results.distances # <<>>
                          THEN results.distances[1] ELSE <<>>
             confidence == IF distances # <<>>
                           THEN One - (sum(distances) \div Len(distances))
                           ELSE 0
         IN  [s EXCEPT !.retrieved_docs = docs, !.confidence = confidence,
                       !.reasoning = s.reasoning \o << Note("Retrieved documents.", <<>>) >>]

retrieve_documents(s, count, results) ==
    IF count = 0
    THEN [s EXCEPT !.retrieved_docs = <<>>, !.confidence = 0]
    ELSE LET docs      == IF results.documents # <<>>
                          THEN results.documents[1] ELSE <<>>
             distances == IF results.distances # <<>>
                          THEN results.distances[1] ELSE <<>>
             confidence == IF distances # <<>>
                           THEN One - (sum(distances) \div Len(distances))
                           ELSE 0
         IN  [s EXCEPT !.retrieved_docs = docs, !.confidence = confidence]

\* variant: the query is embedded and sent whatever count() returned
retrieve_calls_unguarded(count) ==
    << "store.count", "embed.encode", "store.query" >>

\* variant: the query is embedded and sent a second time
retrieve_calls_requery(count) ==
    IF count = 0
    THEN << "store.count" >>
    ELSE << "store.count", "embed.encode", "store.query",
            "embed.encode", "store.query" >>

\* the external calls retrieve_documents issues, in order
retrieve_calls(count) ==
    IF count = 0
    THEN << "store.count" >>
    ELSE << "store.count", "embed.encode", "store.query" >>

(***************************************************************************)
(* NODE 3: web_search (placeholder results)                                *)
(***************************************************************************)
\* variant: the placeholder results are stored but confidence is left alone
web_search_keeps_confidence(s) ==
    LET web_results ==
            << [text |-> "[Web Search Placeholder] Results for:", query |-> s.query],
               [text |-> "Integrate Tavily API for real web search", query |-> ""] >>
    IN  [s EXCEPT !.web_results = web_results]

web_search(s) ==
    LET web_results ==
            << [text |-> "[Web Search Placeholder] Results for:", query |-> s.query],
               [text |-> "Integrate Tavily API for real web search", query |-> ""] >>
    IN  [s EXCEPT !.web_results = web_results, !.confidence = WEB_CONFIDENCE]

(***************************************************************************)
(* NODE 4: check_quality                                                   *)
(***************************************************************************)
\* variant: a rejected retrieval also drops its documents
check_quality_purges(s) ==
    IF s.confidence < LOW_CONFIDENCE /\ s.retrieved_docs # <<>>
    THEN [s EXCEPT !.needs_retrieval = FALSE,
                   !.retrieved_docs = <<>>,
                   !.reasoning = s.reasoning \o
                       << Note("Low confidence in retrieval. Using LLM directly.", <<>>) >>]
    ELSE s

\* variant: the low-confidence note replaces the reasoning so far
check_quality_overwrites(s) ==
    IF s.confidence < LOW_CONFIDENCE /\ s.retrieved_docs # <<>>
    THEN [s EXCEPT !.needs_retrieval = FALSE,
                   !.reasoning =
                       << Note("Low confidence in retrieval. Using LLM directly.", <<>>) >>]
    ELSE s

\* variant: the threshold itself counts as low confidence
check_quality_inclusive(s) ==
    IF s.confidence <= LOW_CONFIDENCE /\ s.retrieved_docs # <<>>
    THEN [s EXCEPT !.needs_retrieval = FALSE,
                   !.reasoning = s.reasoning \o
                       << Note("Low confidence in retrieval. Using LLM directly.", <<>>) >>]
    ELSE s

\* variant: a rejected retrieval is also reclassified as a general question
check_quality_reclassifies(s) ==
    IF s.confidence < LOW_CONFIDENCE /\ s.retrieved_docs # <<>>
    THEN [s EXCEPT !.needs_retrieval = FALSE,
                   !.query_type = GENERAL,
                   !.reasoning = s.reasoning \o
                       << Note("Low confidence in retrieval. Using LLM directly.", <<>>) >>]
    ELSE s

check_quality(s) ==
    IF s.confidence < LOW_CONFIDENCE /\ s.retrieved_docs # <<>>
    THEN [s EXCEPT !.needs_retrieval = FALSE,
                   !.reasoning = s.reasoning \o
                       << Note("Low confidence in retrieval. Using LLM directly.", <<>>) >>]
    ELSE s

(***************************************************************************)
(* NODE 5: generate_answer.  The context is a sequence of lines (joined by *)
(* "\n" in the code); build_messages is the request sent to the LLM and    *)
(* generate_answer the state returned once the LLM replied with answer.    *)
(***************************************************************************)
Line(label, n, text) == [label |-> label, n |-> n, text |-> text]

\* variant: the web results are listed before the retrieved documents
context_parts_web_first(s) ==
    LET docs        == s.retrieved_docs
        web_results == s.web_results
        docPart == IF docs # <<>>
                   THEN << Line("Knowledge Base Context:", 0, "") >> \o
                        [i \in 1..Len(docs) |-> Line("[Doc i]", i, docs[i])]
                   ELSE <<>>
        webPart == IF web_results # <<>>
                   THEN << Line("\nWeb Search Results:", 0, "") >> \o
                        [i \in 1..Len(web_results) |->
                            Line("[Result i]", i, web_results[i].text)]
                   ELSE <<>>
    IN  webPart \o docPart

context_parts(s) ==
    LET docs        == s.retrieved_docs
        web_results == s.web_results
        docPart == IF docs # <<>>
                   THEN << Line("Knowledge Base Context:", 0, "") >> \o
                        [i \in 1..Len(docs) |-> Line("[Doc i]", i, docs[i])]
                   ELSE <<>>
        webPart == IF web_results # <<>>
                   THEN << Line("\nWeb Search Results:", 0, "") >> \o
                        [i \in 1..Len(web_results) |->
                            Line("[Result i]", i, web_results[i].text)]
                   ELSE <<>>
    IN  docPart \o webPart

context(s) ==
    IF context_parts(s) # <<>>
    THEN context_parts(s)
    ELSE << Line("No specific context available.", 0, "") >>

\* variant: the calculation branch is missing and falls to the grounded prompt
build_messages_no_calculator(s) ==
    IF s.query_type = GREETING
    THEN [system |-> "friendly assistant",
          user   |-> [context |-> <<>>, question |-> s.query]]
    ELSE [system |-> "grounded assistant",
          user   |-> [context |-> context(s), question |-> s.query]]

\* variant: the context is injected only while needs_retrieval is set
build_messages_gated(s) ==
    IF s.query_type = GREETING
    THEN [system |-> "friendly assistant",
          user   |-> [context |-> <<>>, question |-> s.query]]
    ELSE IF s.query_type = CALCULATION
    THEN [system |-> "helpful calculator",
          user   |-> [context |-> <<>>, question |-> s.query]]
    ELSE [system |-> "grounded assistant",
          user   |-> [context |-> IF s.needs_retrieval \/ s.web_results # <<>>
                                  THEN context(s)
                                  ELSE << Line("No specific context available.", 0, "") >>,
                      question |-> s.query]]

build_messages(s) ==
    IF s.query_type = GREETING
    THEN [system |-> "friendly assistant",
          user   |-> [context |-> <<>>, question |-> s.query]]
    ELSE IF s.query_type = CALCULATION
    THEN [system |-> "helpful calculator",
          user   |-> [context |-> <<>>, question |-> s.query]]
    ELSE [system |-> "grounded assistant",
          user   |-> [context |-> context(s), question |-> s.query]]

\* variant: an empty completion is replaced by a stock sentence
generate_answer_defaulting(s, answer) ==
    [s EXCEPT !.answer = IF answer = "" THEN "I could not produce an answer." ELSE answer]

\* variant: the documents are dropped from the state once the answer is written
generate_answer_consumes(s, answer) ==
    [s EXCEPT !.answer = answer, !.retrieved_docs = <<>>]

generate_answer(s, answer) == [s EXCEPT !.answer = answer]

(***************************************************************************)
(* Routing and the compiled graph                                          *)
(***************************************************************************)
route_after_analysis(s) ==
    IF s.needs_retrieval THEN "retrieve"
    ELSE IF s.needs_web_search THEN "web_search"
    ELSE "generate"

\* variant: the gate sends a rejected retrieval back to retrieve
route_after_quality_check_retry(s) ==
    IF s.needs_retrieval THEN "generate" ELSE "retrieve"

route_after_quality_check(s) == "generate"

entry_point == "analyze"

\* variant: the edge out of quality_check leads back to retrieve
next_node_requeues(node, s) ==
    CASE node = "analyze"       -> route_after_analysis(s)
      [] node = "retrieve"      -> "quality_check"
      [] node = "quality_check" -> "retrieve"
      [] node = "web_search"    -> "generate"
      [] node = "generate"      -> "END"

\* variant: a raising call is swallowed and the run goes on to its last node
on_exception_continues(node) == IF node = "generate" THEN "END" ELSE "generate"

\* no node and neither invoke nor ask catches an exception: a raising
\* external call ends the run
on_exception(node) == "failed"

\* variant: a retrieval the gate rejected falls back to the web search
next_node_web_fallback(node, s) ==
    CASE node = "analyze"       -> route_after_analysis(s)
      [] node = "retrieve"      -> "quality_check"
      [] node = "quality_check" -> IF s.needs_retrieval THEN "generate"
                                   ELSE "web_search"
      [] node = "web_search"    -> "generate"
      [] node = "generate"      -> "END"

\* add_edge and add_conditional_edges of _build_workflow
next_node(node, s) ==
    CASE node = "analyze"       -> route_after_analysis(s)
      [] node = "retrieve"      -> "quality_check"
      [] node = "quality_check" -> route_after_quality_check(s)
      [] node = "web_search"    -> "generate"
      [] node = "generate"      -> "END"

(***************************************************************************)
(* The vector store.  collection.query returns min(count, n_results)       *)
(* distinct stored documents, nearest first, with their cosine distances.  *)
(***************************************************************************)
count(st) == Len(st)

\* variant: the query is sent without n_results and every document comes back
QueryResults_unlimited(st, n) ==
    LET k == count(st)
    IN  { [documents |-> << [i \in 1..k |-> st[pick[i]].document] >>,
           distances |-> << dist >>] :
            pick \in { f \in [1..k -> 1..count(st)] :
                         \A i, j \in 1..k : i # j => f[i] # f[j] },
            dist \in { d \in [1..k -> DistValues] :
                         \A i, j \in 1..k : i <= j => d[i] <= d[j] } }

QueryResults(st, n) ==
    LET k == Min(count(st), n)
    IN  { [documents |-> << [i \in 1..k |-> st[pick[i]].document] >>,
           distances |-> << dist >>] :
            pick \in { f \in [1..k -> 1..count(st)] :
                         \A i, j \in 1..k : i # j => f[i] # f[j] },
            dist \in { d \in [1..k -> DistValues] :
                         \A i, j \in 1..k : i <= j => d[i] <= d[j] } }

\* variant: the ids are numbered from start_id + 1
new_entries_one_based(st, documents) ==
    LET start_id == count(st)
    IN  [i \in 1..Len(documents) |->
            [id |-> start_id + i, document |-> documents[i]]]

\* add_documents: ids doc_<start_id + i>
new_entries(st, documents) ==
    LET start_id == count(st)
    IN  [i \in 1..Len(documents) |->
            [id |-> start_id + (i - 1), document |-> documents[i]]]

Batches == UNION { [1..n -> Docs] : n \in 1..MaxBatch }

(***************************************************************************)
(* Concurrent callers and the HTTP layer: their idle values                *)
(***************************************************************************)
Writers == {"w1", "w2"}
Runs == {"r1", "r2"}

IdleWriter == [pc |-> "idle", documents |-> <<>>, start_id |-> 0, ids |-> <<>>]

NoResults == [documents |-> << <<>> >>, distances |-> << <<>> >>]

IdleRun ==
    [pc |-> "idle", state |-> initial_state(""), reply |-> <<>>,
     count |-> 0, results |-> NoResults, completion |-> None,
     result |-> initial_state("")]

Detail(code, text) == [code |-> code, text |-> text]

NoBody == [added |-> 0, total |-> 0, answer |-> None, sources |-> <<>>]

NoResponse ==
    [endpoint |-> None, filename |-> <<>>, status |-> 0,
     detail |-> Detail(0, None), body |-> NoBody]

(***************************************************************************)
(* Actions                                                                 *)
(***************************************************************************)
Init ==
    /\ pc = "idle"
    /\ state = initial_state("")
    /\ trace = <<>>
    /\ store = <<>>
    /\ calls = <<>>
    /\ prompt = NoPrompt
    /\ analyzed = initial_state("")
    /\ reply = <<>>
    /\ completion = None
    /\ found = NoResults
    /\ result = initial_state("")
    /\ writers = [w \in Writers |-> IdleWriter]
    /\ runs = [r \in Runs |-> IdleRun]
    /\ http = NoResponse

\* AgenticRAG.add_documents, called before the question is asked
AddDocuments ==
    /\ pc = "idle"
    /\ \E documents \in Batches :
         /\ count(store) + Len(documents) <= MaxStore
         /\ store' = store \o new_entries(store, documents)
    /\ UNCHANGED <<pc, state, trace, calls, prompt, analyzed, reply, found, completion, result, others>>

\* ask: build the initial state and enter the graph
Ask ==
    /\ pc = "idle"
    /\ \E query \in Queries :
         /\ state' = initial_state(query)
         /\ analyzed' = initial_state(query)
         /\ result' = initial_state(query)
    /\ pc' = entry_point
    /\ UNCHANGED <<trace, store, calls, prompt, reply, found, completion, others>>

Analyze ==
    /\ pc = "analyze"
    /\ \E response \in ClassifierResponses :
         /\ state' = analyze_query(state, response)
         /\ analyzed' = analyze_query(state, response)
         /\ reply' = response
         /\ pc' = next_node("analyze", analyze_query(state, response))
    /\ trace' = Append(trace, "analyze")
    /\ calls' = Append(calls, "llm.classify")
    /\ UNCHANGED <<store, prompt, completion, found, result, others>>

\* the classification request raises: invoke propagates the exception
AnalyzeFails ==
    /\ pc = "analyze"
    /\ pc' = on_exception("analyze")
    /\ trace' = Append(trace, "analyze")
    /\ calls' = calls \o << "llm.classify", "raised" >>
    /\ UNCHANGED <<state, store, prompt, analyzed, reply, found, completion, result, others>>

Retrieve ==
    /\ pc = "retrieve"
    /\ \E results \in QueryResults(store, N_RESULTS) :
         /\ state' = retrieve_documents(state, count(store), results)
         /\ pc' = next_node("retrieve", retrieve_documents(state, count(store), results))
         /\ found' = IF count(store) = 0 THEN found ELSE results
    /\ trace' = Append(trace, "retrieve")
    /\ calls' = calls \o retrieve_calls(count(store))
    /\ UNCHANGED <<store, prompt, analyzed, reply, completion, result, others>>

\* count, encode or query raises
RetrieveFails ==
    /\ pc = "retrieve"
    /\ \E n \in 1..Len(retrieve_calls(count(store))) :
         calls' = calls \o SubSeq(retrieve_calls(count(store)), 1, n) \o << "raised" >>
    /\ pc' = on_exception("retrieve")
    /\ trace' = Append(trace, "retrieve")
    /\ UNCHANGED <<state, store, prompt, analyzed, reply, found, completion, result, others>>

WebSearch ==
    /\ pc = "web_search"
    /\ state' = web_search(state)
    /\ pc' = next_node("web_search", web_search(state))
    /\ trace' = Append(trace, "web_search")
    /\ UNCHANGED <<store, calls, prompt, analyzed, reply, found, completion, result, others>>

QualityCheck ==
    /\ pc = "quality_check"
    /\ state' = check_quality(state)
    /\ pc' = next_node("quality_check", check_quality(state))
    /\ trace' = Append(trace, "quality_check")
    /\ UNCHANGED <<store, calls, prompt, analyzed, reply, found, completion, result, others>>

Generate ==
    /\ pc = "generate"
    /\ prompt' = build_messages(state)
    /\ \E answer \in Answers :
         /\ completion' = answer
         /\ state' = generate_answer(state, answer)
         /\ pc' = next_node("generate", generate_answer(state, answer))
    /\ trace' = Append(trace, "generate")
    /\ calls' = Append(calls, "llm.answer")
    /\ UNCHANGED <<store, analyzed, reply, found, result, others>>

\* the answer request raises
GenerateFails ==
    /\ pc = "generate"
    /\ prompt' = build_messages(state)
    /\ pc' = on_exception("generate")
    /\ trace' = Append(trace, "generate")
    /\ calls' = calls \o << "llm.answer", "raised" >>
    /\ UNCHANGED <<state, store, analyzed, reply, found, completion, result, others>>

\* workflow.invoke returns the final state and ask returns it
Return ==
    /\ pc = "END"
    /\ result' = state
    /\ pc' = "returned"
    /\ UNCHANGED <<state, trace, store, calls, prompt, analyzed, reply, found, completion, others>>

Next ==
    \/ AddDocuments
    \/ Ask
    \/ Analyze
    \/ AnalyzeFails
    \/ Retrieve
    \/ RetrieveFails
    \/ WebSearch
    \/ QualityCheck
    \/ Generate
    \/ GenerateFails
    \/ Return

Spec == Init /\ [][Next]_vars

\* a step of a run in progress: ask is one synchronous call, so once it
\* has been entered its next node step (or the return) is taken
RunStep ==
    \/ Analyze
    \/ AnalyzeFails
    \/ Retrieve
    \/ RetrieveFails
    \/ WebSearch
    \/ QualityCheck
    \/ Generate
    \/ GenerateFails
    \/ Return

FairSpec == Spec /\ WF_vars(RunStep)

(***************************************************************************)
(* check_quality applied to arbitrary states: every confidence around the  *)
(* threshold, inside and outside [0,1], with zero to three documents.      *)
(***************************************************************************)
GateConfidences == {0 - 30, 0, 6, 17, 18, 19, 30, 60}

GateDocs == UNION { [1..n -> Docs] : n \in 0..N_RESULTS }

GateInit ==
    /\ pc = "quality_check"
    /\ \E q \in Queries, c \in GateConfidences, d \in GateDocs, nr \in BOOLEAN :
         /\ state = [analyze_query(initial_state(q), FACTUAL) EXCEPT
                        !.needs_retrieval = nr,
                        !.retrieved_docs = d,
                        !.confidence = c]
         /\ analyzed = analyze_query(initial_state(q), FACTUAL)
         /\ result = initial_state(q)
    /\ trace = << "analyze", "retrieve" >>
    /\ store = <<>>
    /\ calls = << "llm.classify", "store.count" >>
    /\ prompt = NoPrompt
    /\ reply = FACTUAL
    /\ completion = None
    /\ found = NoResults
    /\ writers = [w \in Writers |-> IdleWriter]
    /\ runs = [r \in Runs |-> IdleRun]
    /\ http = NoResponse

GateSpec == GateInit /\ [][QualityCheck]_vars

(***************************************************************************)
(* generate_answer applied to arbitrary states: every query type, known or *)
(* not, with zero to three documents and with or without web results.      *)
(***************************************************************************)
PromptTypes == KnownLabels \cup { <<"o", "t", "h", "e", "r">>, <<>> }

PromptInit ==
    /\ pc = "generate"
    /\ \E q \in Queries, ty \in PromptTypes, d \in GateDocs, searched \in BOOLEAN :
         /\ state = [initial_state(q) EXCEPT
                        !.query_type = ty,
                        !.retrieved_docs = d,
                        !.web_results = IF searched
                                        THEN web_search(initial_state(q)).web_results
                                        ELSE <<>>]
         /\ analyzed = [initial_state(q) EXCEPT !.query_type = ty]
         /\ result = initial_state(q)
    /\ trace = << "analyze" >>
    /\ store = <<>>
    /\ calls = << "llm.classify" >>
    /\ prompt = NoPrompt
    /\ reply = <<>>
    /\ completion = None
    /\ found = NoResults
    /\ writers = [w \in Writers |-> IdleWriter]
    /\ runs = [r \in Runs |-> IdleRun]
    /\ http = NoResponse

PromptNext ==
    \/ Generate
    \/ GenerateFails
    \/ Return

PromptSpec == PromptInit /\ [][PromptNext]_vars

(***************************************************************************)
(* api_server.py: RAGService on its own collection (store) and the         *)
(* endpoints.  A handler runs to completion before the next request is     *)
(* served.  fail names the external call that raises in this request       *)
(* ("none" when all return).  Exceptions are records; str(e) of an         *)
(* HTTPException is its status code followed by its detail.                *)
(***************************************************************************)
HTTPException(status, text) == [kind |-> "HTTPException", status |-> status, text |-> text]

Exception(text) == [kind |-> "Exception", status |-> 0, text |-> text]

NoException == [kind |-> None, status |-> 0, text |-> None]

str(e) == IF e.kind = "HTTPException" THEN Detail(e.status, e.text) ELSE Detail(0, e.text)

endswith(s, suffix) ==
    /\ Len(s) >= Len(suffix)
    /\ SubSeq(s, Len(s) - Len(suffix) + 1, Len(s)) = suffix

DOT_PDF == << ".", "p", "d", "f" >>

Filenames ==
    { << "a", ".", "p", "d", "f" >>,
      << ".", "p", "d", "f" >>,
      << "a", ".", "t", "x", "t" >>,
      << "a", ".", "P", "D", "F" >>,
      << "p", "d", "f" >>,
      << "a", ".", "p", "d", "f", ".", "e", "x", "e" >>,
      <<>> }

\* page texts a PDF may hold; " \n" is blank after strip()
PageTexts == {" \n"} \cup Docs

Pdfs == UNION { [1..n -> PageTexts] : n \in 0..MaxBatch }

\* RAGService.process_pdf: the non-blank pages, in order
RECURSIVE process_pdf(_)
process_pdf(pages) ==
    IF pages = <<>> THEN <<>>
    ELSE IF Head(pages) \in Docs
         THEN << Head(pages) >> \o process_pdf(Tail(pages))
         ELSE process_pdf(Tail(pages))

\* the outcome of a try body: what was raised (if anything), the response
\* body, the collection and the external calls issued
Outcome(exc, body, st, issued) ==
    [exc |-> exc, body |-> body, store |-> st, calls |-> issued]

\* RAGService.add_documents
service_add_documents(st, documents, fail) ==
    IF fail = "count"
    THEN Outcome(Exception("count failed"), NoBody, st, << "store.count", "raised" >>)
    ELSE IF fail = "encode"
    THEN Outcome(Exception("encode failed"), NoBody, st,
                 << "store.count", "embed.encode", "raised" >>)
    ELSE IF fail = "add" \/ documents = <<>>
    THEN Outcome(Exception("add failed"), NoBody, st,
                 << "store.count", "embed.encode", "store.add", "raised" >>)
    ELSE Outcome(NoException,
                 [NoBody EXCEPT !.added = Len(documents),
                                !.total = count(st) + Len(documents)],
                 st \o new_entries(st, documents),
                 << "store.count", "embed.encode", "store.add", "store.count" >>)

\* the try body of upload_pdf
upload_pdf_try(st, filename, pages, fail) ==
    IF ~endswith(filename, DOT_PDF)
    THEN Outcome(HTTPException(400, "Only PDF files are allowed"), NoBody, st, <<>>)
    ELSE IF fail = "read"
    THEN Outcome(Exception("read failed"), NoBody, st, << "pdf.read", "raised" >>)
    ELSE LET added == service_add_documents(st, process_pdf(pages), fail)
         IN  [added EXCEPT !.calls = << "pdf.read" >> \o added.calls]

\* upload_pdf: its only handler is "except Exception"
upload_pdf_except(e) == [status |-> 500, detail |-> str(e)]

\* variant: an HTTPException is re-raised unchanged
ask_question_except_all(e) == [status |-> 500, detail |-> str(e)]

\* ask_question: "except HTTPException: raise", then "except Exception"
ask_question_except(e) ==
    IF e.kind = "HTTPException"
    THEN [status |-> e.status, detail |-> Detail(0, e.text)]
    ELSE [status |-> 500, detail |-> str(e)]

\* RAGService.retrieve: what collection.query returns to the endpoint
ApiDistValues == {6, 90}

ApiResults(st, n) ==
    { r \in QueryResults(st, n) :
        \A i \in 1..Len(r.distances[1]) : r.distances[1][i] \in ApiDistValues }

\* the try body of ask_question
ask_question_try(st, n_results, show_sources, results, answer, fail) ==
    IF fail = "count"
    THEN Outcome(Exception("count failed"), NoBody, st, << "store.count", "raised" >>)
    ELSE IF count(st) = 0
    THEN Outcome(HTTPException(400,
                     "No documents in knowledge base. Please upload documents first."),
                 NoBody, st, << "store.count" >>)
    ELSE IF fail = "encode"
    THEN Outcome(Exception("encode failed"), NoBody, st,
                 << "store.count", "embed.encode", "raised" >>)
    ELSE IF fail = "query"
    THEN Outcome(Exception("query failed"), NoBody, st,
                 << "store.count", "embed.encode", "store.query", "raised" >>)
    ELSE IF fail = "llm"
    THEN Outcome(Exception("llm failed"), NoBody, st,
                 << "store.count", "embed.encode", "store.query", "llm.answer", "raised" >>)
    ELSE LET documents == results.documents[1]
             distances == results.distances[1]
             sources == IF show_sources
                        THEN [i \in 1..Len(documents) |->
                                [document |-> documents[i],
                                 similarity |-> One - distances[i]]]
                        ELSE <<>>
         IN  Outcome(NoException,
                     [NoBody EXCEPT !.answer = answer, !.sources = sources],
                     st,
                     << "store.count", "embed.encode", "store.query", "llm.answer" >>)

\* RAGService.clear_database behind DELETE /clear
clear_database_try(st, fail) ==
    IF fail = "delete"
    THEN Outcome(Exception("delete failed"), NoBody, st,
                 << "store.delete_collection", "raised" >>)
    ELSE Outcome(NoException, NoBody, <<>>,
                 << "store.delete_collection", "store.create_collection" >>)

\* the response a handler sends for an outcome; except_ maps the exception
Respond(endpoint, filename, outcome, handled) ==
    IF outcome.exc = NoException
    THEN [endpoint |-> endpoint, filename |-> filename, status |-> 200,
          detail |-> Detail(0, None), body |-> outcome.body]
    ELSE [endpoint |-> endpoint, filename |-> filename, status |-> handled.status,
          detail |-> handled.detail, body |-> NoBody]

workflow == <<pc, state, trace, prompt, analyzed, reply, found, completion, result,
              writers, runs>>

\* inputs that the failing call never reads are held fixed
UploadPdf ==
    /\ \E filename \in Filenames :
       \E fail \in IF endswith(filename, DOT_PDF)
                   THEN {"none", "read", "count", "encode", "add"} ELSE {"none"} :
       \E pages \in IF endswith(filename, DOT_PDF) /\ fail = "none"
                    THEN Pdfs ELSE { << "docA" >> } :
         LET outcome == upload_pdf_try(store, filename, pages, fail)
         IN  /\ count(outcome.store) <= MaxStore
             /\ store' = outcome.store
             /\ calls' = outcome.calls
             /\ http' = Respond("/upload-pdf", filename, outcome,
                                upload_pdf_except(outcome.exc))
    /\ UNCHANGED workflow

AddDocument ==
    /\ \E text \in Docs, fail \in {"none", "count", "encode", "add"} :
         LET outcome == service_add_documents(store, << text >>, fail)
         IN  /\ count(outcome.store) <= MaxStore
             /\ store' = outcome.store
             /\ calls' = outcome.calls
             /\ http' = Respond("/add-document", <<>>, outcome,
                                upload_pdf_except(outcome.exc))
    /\ UNCHANGED workflow

AskQuestion ==
    /\ \E fail \in {"none", "count", "encode", "query", "llm"} :
       \E n_results \in IF fail = "none" THEN {1, N_RESULTS} ELSE {N_RESULTS},
          show_sources \in IF fail = "none" THEN BOOLEAN ELSE {TRUE},
          answer \in IF fail = "none" THEN Answers ELSE {""} :
         \E results \in IF fail = "none" /\ show_sources /\ count(store) > 0
                        THEN ApiResults(store, n_results)
                        ELSE { CHOOSE r \in ApiResults(store, n_results) : TRUE } :
            LET outcome == ask_question_try(store, n_results, show_sources,
                                            results, answer, fail)
            IN  /\ calls' = outcome.calls
                /\ http' = Respond("/ask", <<>>, outcome,
                                   ask_question_except(outcome.exc))
    /\ UNCHANGED store
    /\ UNCHANGED workflow

ClearDatabase ==
    /\ \E fail \in {"none", "delete"} :
         LET outcome == clear_database_try(store, fail)
         IN  /\ store' = outcome.store
             /\ calls' = outcome.calls
             /\ http' = Respond("/clear", <<>>, outcome,
                                upload_pdf_except(outcome.exc))
    /\ UNCHANGED workflow

ApiNext ==
    \/ UploadPdf
    \/ AddDocument
    \/ AskQuestion
    \/ ClearDatabase

ApiSpec == Init /\ [][ApiNext]_vars

(***************************************************************************)
(* Concurrent add_documents calls on one collection.  The method holds no  *)
(* lock: count(), encode() and collection.add() are separate steps of each *)
(* caller.  What collection.add does with an id that is already stored     *)
(* depends on the chromadb build: the entry is ignored, or the call        *)
(* raises and stores nothing.                                              *)
(***************************************************************************)
StoredIds(st) == { st[i].id : i \in 1..Len(st) }

\* ids = [f"doc_{start_id + i}" for i in range(len(documents))]
make_ids(start_id, documents) == [i \in 1..Len(documents) |-> start_id + (i - 1)]

\* collection.add where entries with a stored id are ignored
RECURSIVE add_ignoring(_, _, _)
add_ignoring(st, ids, documents) ==
    IF ids = <<>> THEN st
    ELSE add_ignoring(
            IF Head(ids) \in StoredIds(st) THEN st
            ELSE Append(st, [id |-> Head(ids), document |-> Head(documents)]),
            Tail(ids), Tail(documents))

WriterCount(w) ==
    /\ writers[w].pc = "idle"
    /\ \E documents \in Batches :
         /\ count(store) + Len(documents) <= MaxStore
         /\ writers' = [writers EXCEPT ![w] =
                [pc |-> "counted", documents |-> documents,
                 start_id |-> count(store),
                 ids |-> make_ids(count(store), documents)]]
    /\ UNCHANGED <<pc, state, trace, store, calls, prompt, analyzed, reply, found,
                   completion, result, runs, http>>

WriterEncode(w) ==
    /\ writers[w].pc = "counted"
    /\ writers' = [writers EXCEPT ![w].pc = "encoded"]
    /\ UNCHANGED <<pc, state, trace, store, calls, prompt, analyzed, reply, found,
                   completion, result, runs, http>>

WriterAdd(w) ==
    /\ writers[w].pc = "encoded"
    /\ \/ /\ store' = add_ignoring(store, writers[w].ids, writers[w].documents)
          /\ writers' = [writers EXCEPT ![w].pc = "done"]
       \/ /\ \E i \in 1..Len(writers[w].ids) : writers[w].ids[i] \in StoredIds(store)
          /\ store' = store
          /\ writers' = [writers EXCEPT ![w].pc = "failed"]
    /\ UNCHANGED <<pc, state, trace, calls, prompt, analyzed, reply, found,
                   completion, result, runs, http>>

WriterNext == \E w \in Writers : WriterCount(w) \/ WriterEncode(w) \/ WriterAdd(w)

WriterSpec == Init /\ [][WriterNext]_vars

(***************************************************************************)
(* Concurrent ask calls on one AgenticRAG instance.  Each call builds its  *)
(* own initial_state and workflow.invoke threads that dict through the     *)
(* nodes; the nodes read self.collection and never write it.  Each run     *)
(* records the external responses it received.                             *)
(***************************************************************************)
RunReplies == {FACTUAL, WEB_CURRENT, GREETING}

RunStores == { <<>>, new_entries(<<>>, << "docA", "docB" >>) }

\* variant: the state dict is kept on the instance and shared by all calls
run_state_shared(rs, r) == rs[CHOOSE x \in Runs : TRUE].state

\* the state dict the next node of run r receives
run_state(rs, r) == rs[r].state

RunsInit ==
    /\ pc = "idle"
    /\ state = initial_state("")
    /\ trace = <<>>
    /\ store \in RunStores
    /\ calls = <<>>
    /\ prompt = NoPrompt
    /\ analyzed = initial_state("")
    /\ reply = <<>>
    /\ completion = None
    /\ found = NoResults
    /\ result = initial_state("")
    /\ writers = [w \in Writers |-> IdleWriter]
    /\ runs = [r \in Runs |-> IdleRun]
    /\ http = NoResponse

RunFrame == <<pc, state, trace, store, calls, prompt, analyzed, reply, found,
              completion, result, writers, http>>

RunAsk(r) ==
    /\ runs[r].pc = "idle"
    /\ \E query \in Queries :
         runs' = [runs EXCEPT ![r] =
                    [IdleRun EXCEPT !.pc = entry_point,
                                    !.state = initial_state(query),
                                    !.result = initial_state(query)]]
    /\ UNCHANGED RunFrame

RunAnalyze(r) ==
    /\ runs[r].pc = "analyze"
    /\ \E response \in RunReplies :
         LET s == analyze_query(run_state(runs, r), response)
         IN  runs' = [runs EXCEPT ![r].state = s,
                                  ![r].reply = response,
                                  ![r].pc = next_node("analyze", s)]
    /\ UNCHANGED RunFrame

RunRetrieve(r) ==
    /\ runs[r].pc = "retrieve"
    /\ \E results \in ApiResults(store, N_RESULTS) :
         LET s == retrieve_documents(run_state(runs, r), count(store), results)
         IN  runs' = [runs EXCEPT ![r].state = s,
                                  ![r].count = count(store),
                                  ![r].results = results,
                                  ![r].pc = next_node("retrieve", s)]
    /\ UNCHANGED RunFrame

RunWebSearch(r) ==
    /\ runs[r].pc = "web_search"
    /\ LET s == web_search(run_state(runs, r))
       IN  runs' = [runs EXCEPT ![r].state = s,
                                ![r].pc = next_node("web_search", s)]
    /\ UNCHANGED RunFrame

RunQualityCheck(r) ==
    /\ runs[r].pc = "quality_check"
    /\ LET s == check_quality(run_state(runs, r))
       IN  runs' = [runs EXCEPT ![r].state = s,
                                ![r].pc = next_node("quality_check", s)]
    /\ UNCHANGED RunFrame

RunGenerate(r) ==
    /\ runs[r].pc = "generate"
    /\ \E answer \in Answers :
         LET s == generate_answer(run_state(runs, r), answer)
         IN  runs' = [runs EXCEPT ![r].state = s,
                                  ![r].completion = answer,
                                  ![r].pc = next_node("generate", s)]
    /\ UNCHANGED RunFrame

\* an external call of the node raises
RunFails(r) ==
    /\ runs[r].pc \in {"analyze", "retrieve", "generate"}
    /\ runs' = [runs EXCEPT ![r].pc = on_exception(runs[r].pc)]
    /\ UNCHANGED RunFrame

RunReturn(r) ==
    /\ runs[r].pc = "END"
    /\ runs' = [runs EXCEPT ![r].result = run_state(runs, r),
                            ![r].pc = "returned"]
    /\ UNCHANGED RunFrame

RunsNext ==
    \E r \in Runs :
        \/ RunAsk(r)
        \/ RunAnalyze(r)
        \/ RunRetrieve(r)
        \/ RunWebSearch(r)
        \/ RunQualityCheck(r)
        \/ RunGenerate(r)
        \/ RunFails(r)
        \/ RunReturn(r)

RunsSpec == RunsInit /\ [][RunsNext]_vars

(***************************************************************************)
(* retrieve_documents applied to every store of up to MaxStore documents   *)
(* and to every answer of collection.query, the answers with no inner list *)
(* or an empty inner list (lines 158-159, 163) included.                   *)
(***************************************************************************)
Stores == { new_entries(<<>>, documents) :
              documents \in UNION { [1..n -> Docs] : n \in 0..MaxStore } }

StoreResponses(st) ==
    QueryResults(st, N_RESULTS) \cup
    { NoResults, [documents |-> <<>>, distances |-> <<>>] }

RetrieveInit ==
    /\ pc = "retrieve"
    /\ \E q \in Queries :
         /\ state = analyze_query(initial_state(q), FACTUAL)
         /\ analyzed = analyze_query(initial_state(q), FACTUAL)
         /\ result = initial_state(q)
    /\ trace = << "analyze" >>
    /\ store \in Stores
    /\ calls = << "llm.classify" >>
    /\ prompt = NoPrompt
    /\ reply = FACTUAL
    /\ completion = None
    /\ found = NoResults
    /\ writers = [w \in Writers |-> IdleWriter]
    /\ runs = [r \in Runs |-> IdleRun]
    /\ http = NoResponse

RetrieveDocuments ==
    /\ pc = "retrieve"
    /\ \E results \in StoreResponses(store) :
         /\ state' = retrieve_documents(state, count(store), results)
         /\ pc' = next_node("retrieve", retrieve_documents(state, count(store), results))
         /\ found' = IF count(store) = 0 THEN found ELSE results
    /\ trace' = Append(trace, "retrieve")
    /\ calls' = calls \o retrieve_calls(count(store))
    /\ UNCHANGED <<store, prompt, analyzed, reply, completion, result, others>>

RetrieveSpec == RetrieveInit /\ [][RetrieveDocuments]_vars

TypeOK ==
    /\ pc \in {"idle", "analyze", "retrieve", "web_search", "quality_check",
               "generate", "END", "returned", "failed"}
    /\ state.needs_retrieval \in BOOLEAN
    /\ state.needs_web_search \in BOOLEAN
    /\ state.confidence \in Int
    /\ Len(store) <= MaxStore

(***************************************************************************)
(* Helpers for the properties                                              *)
(***************************************************************************)
Range(f) == { f[i] : i \in DOMAIN f }

IsPrefix(a, b) == Len(a) <= Len(b) /\ SubSeq(b, 1, Len(a)) = a

\* analyze_query has returned in this run
AnalyzeDone == Len(trace) >= 1 /\ (pc = "failed" => Len(trace) >= 2)

\* the node sequence the routing table prescribes for the state analyze returned
ExpectedPath(a) ==
    IF a.needs_retrieval
    THEN << "analyze", "retrieve", "quality_check", "generate" >>
    ELSE IF a.needs_web_search
    THEN << "analyze", "web_search", "generate" >>
    ELSE << "analyze", "generate" >>

(***************************************************************************)
(* C1: the nodes executed by one ask run are exactly analyze, retrieve,    *)
(* quality_check, generate when needs_retrieval is true after analyze;     *)
(* analyze, web_search, generate when it is false and needs_web_search is  *)
(* true; analyze, generate otherwise.  No node runs twice, and the node    *)
(* after quality_check is generate whatever the gate decided.              *)
(***************************************************************************)
C1_NodeSequence ==
    /\ AnalyzeDone => IsPrefix(trace, ExpectedPath(analyzed))
    /\ pc \in {"END", "returned"} => trace = ExpectedPath(analyzed)
    /\ \A i, j \in 1..Len(trace) : i # j => trace[i] # trace[j]
    /\ \A i \in 1..Len(trace) :
         trace[i] = "quality_check" =>
            IF i < Len(trace) THEN trace[i + 1] = "generate"
            ELSE pc = "generate"

\* a completed retrieval run in which the gate lowered needs_retrieval
C1_Witness ==
    /\ pc = "returned"
    /\ trace = << "analyze", "retrieve", "quality_check", "generate" >>
    /\ analyzed.needs_retrieval
    /\ ~state.needs_retrieval

(***************************************************************************)
(* C2: for each of the five known labels, after trimming whitespace and    *)
(* lower-casing the response, analyze_query sets needs_retrieval =         *)
(* (label = factual) and needs_web_search = (label = web_current); factual *)
(* is routed to retrieve, web_current to web_search, the other three to    *)
(* generate.  The expected label of each raw response is listed by hand.   *)
(***************************************************************************)
C2_Table ==
    { << FACTUAL, FACTUAL, "retrieve" >>,
      << <<" ", "F", "a", "c", "t", "u", "a", "l", "\n">>, FACTUAL, "retrieve" >>,
      << GREETING, GREETING, "generate" >>,
      << <<"G", "R", "E", "E", "T", "I", "N", "G">>, GREETING, "generate" >>,
      << CALCULATION, CALCULATION, "generate" >>,
      << <<"C", "a", "l", "c", "u", "l", "a", "t", "i", "o", "n", "\n">>,
         CALCULATION, "generate" >>,
      << GENERAL, GENERAL, "generate" >>,
      << <<"\t", "G", "e", "n", "e", "r", "a", "l">>, GENERAL, "generate" >>,
      << WEB_CURRENT, WEB_CURRENT, "web_search" >>,
      << <<"W", "e", "b", "_", "C", "u", "r", "r", "e", "n", "t", " ">>,
         WEB_CURRENT, "web_search" >> }

C2_KnownLabels ==
    \A row \in C2_Table :
        (AnalyzeDone /\ reply = row[1]) =>
            /\ analyzed.query_type = row[2]
            /\ analyzed.needs_retrieval = (row[2] = FACTUAL)
            /\ analyzed.needs_web_search = (row[2] = WEB_CURRENT)
            /\ Len(trace) = 1 => pc = row[3]
            /\ Len(trace) >= 2 => trace[2] = row[3]

\* a padded, capitalised "Web_Current " was classified and routed to web_search
C2_Witness ==
    /\ reply = <<"W", "e", "b", "_", "C", "u", "r", "r", "e", "n", "t", " ">>
    /\ trace = << "analyze" >>
    /\ pc = "web_search"
    /\ state.needs_web_search

(***************************************************************************)
(* C3: when the trimmed, lower-cased response is not one of the five known *)
(* labels, analyze_query yields query_type = general with both flags       *)
(* false; so query_type is one of the five labels in every state after     *)
(* analyze.                                                                *)
(***************************************************************************)
C3_UnknownFallsBackToGeneral ==
    AnalyzeDone =>
        /\ state.query_type \in KnownLabels
        /\ (normalize(reply) \notin KnownLabels =>
               /\ state.query_type = GENERAL
               /\ ~analyzed.needs_retrieval
               /\ ~analyzed.needs_web_search)

(***************************************************************************)
(* C4: confidence lies in [0,1] in every reachable state of a run, for     *)
(* every sequence of distances the store can return.                       *)
(***************************************************************************)
C4_ConfidenceInUnitInterval ==
    state.confidence >= 0 /\ state.confidence <= One

(***************************************************************************)
(* C5: for every state with confidence < 0.3 and non-empty retrieved_docs, *)
(* check_quality returns a state with needs_retrieval = false and the same *)
(* retrieved_docs (same documents, length and order).                      *)
(***************************************************************************)
C5_GateKeepsDocuments ==
    [][ (/\ pc = "quality_check"
         /\ 10 * state.confidence < 3 * One
         /\ state.retrieved_docs # <<>>)
        => (/\ state'.needs_retrieval = FALSE
            /\ state'.retrieved_docs = state.retrieved_docs) ]_vars

\* the gate has rejected a retrieval that was still flagged and holds two documents
C5_Witness ==
    /\ pc = "generate"
    /\ trace = << "analyze", "retrieve", "quality_check" >>
    /\ 10 * state.confidence < 3 * One
    /\ Len(state.retrieved_docs) = 2
    /\ ~state.needs_retrieval
    /\ Len(state.reasoning) = 3

(***************************************************************************)
(* C6: for every state with confidence >= 0.3 (0.3 included), or with      *)
(* empty retrieved_docs at any confidence, check_quality returns the state *)
(* unchanged in every field.                                               *)
(***************************************************************************)
C6_GateNoOp ==
    [][ (/\ pc = "quality_check"
         /\ (10 * state.confidence >= 3 * One \/ state.retrieved_docs = <<>>))
        => state' = state ]_vars

\* the gate has passed a state whose confidence is exactly 0.3
C6_Witness ==
    /\ pc = "generate"
    /\ trace = << "analyze", "retrieve", "quality_check" >>
    /\ 10 * state.confidence = 3 * One
    /\ state.retrieved_docs # <<>>
    /\ state.needs_retrieval
    /\ Len(state.reasoning) = 2

(***************************************************************************)
(* C7: in a run classified factual, on a non-empty store, with retrieval   *)
(* confidence below 0.3, the state reaching generate has needs_retrieval = *)
(* false and still holds every retrieved document, and the prompt sent to  *)
(* the LLM lists those documents in its context block.                     *)
(***************************************************************************)
LowConfidenceRun ==
    /\ analyzed.query_type = FACTUAL
    /\ count(store) > 0
    /\ Len(trace) >= 3
    /\ trace[3] = "quality_check"
    /\ 10 * state.confidence < 3 * One

C7_LowConfidencePassThrough ==
    /\ [](LowConfidenceRun =>
            /\ ~state.needs_retrieval
            /\ Len(state.retrieved_docs) = Min(count(store), 3)
            /\ (Len(trace) >= 4 =>
                  /\ trace[4] = "generate"
                  /\ prompt.system = "grounded assistant"
                  /\ \A i \in 1..Len(state.retrieved_docs) :
                        \E k \in 1..Len(prompt.user.context) :
                            /\ prompt.user.context[k].n = i
                            /\ prompt.user.context[k].text = state.retrieved_docs[i]))
    /\ [][ (pc \in {"quality_check", "generate"})
           => state'.retrieved_docs = state.retrieved_docs ]_vars

\* a completed low-confidence run whose answer request carried three documents
C7_Witness ==
    /\ LowConfidenceRun
    /\ pc = "returned"
    /\ Len(result.retrieved_docs) = 3
    /\ ~result.needs_retrieval
    /\ Len(prompt.user.context) = 4

(***************************************************************************)
(* C8: with zero documents in the store, retrieve_documents returns        *)
(* retrieved_docs = [] and confidence = 0.0 without raising and without    *)
(* calling the embedding model or the store's query; the gate is then a    *)
(* no-op and the run reaches generate.                                     *)
(***************************************************************************)
EmptyStoreRetrieval ==
    /\ count(store) = 0
    /\ Len(trace) >= 2
    /\ trace[2] = "retrieve"

C8_EmptyStoreRetrieval ==
    /\ [](EmptyStoreRetrieval =>
            /\ "embed.encode" \notin Range(calls)
            /\ "store.query" \notin Range(calls)
            /\ calls[2] = "store.count"
            /\ (Len(trace) = 2 /\ pc # "failed" =>
                  /\ pc = "quality_check"
                  /\ state.retrieved_docs = <<>>
                  /\ state.confidence = 0)
            /\ (Len(trace) >= 3 =>
                  /\ trace[3] = "quality_check"
                  /\ pc # "quality_check"
                  /\ state.retrieved_docs = <<>>
                  /\ state.confidence = 0
                  /\ state.needs_retrieval)
            /\ (Len(trace) >= 4 => trace[4] = "generate"))
    /\ [][ (pc = "quality_check" /\ count(store) = 0)
           => (state' = state /\ pc' = "generate") ]_vars

\* a completed retrieval run on an empty store
C8_Witness ==
    /\ EmptyStoreRetrieval
    /\ pc = "returned"
    /\ trace = << "analyze", "retrieve", "quality_check", "generate" >>
    /\ calls = << "llm.classify", "store.count", "llm.answer" >>
    /\ result.needs_retrieval

(***************************************************************************)
(* C9: every ask call either returns a terminal state whose answer is      *)
(* non-empty or fails as a whole; no state with an empty answer is         *)
(* returned to the caller, whatever text the LLM returns.                  *)
(***************************************************************************)
C9_ReturnedAnswerNonEmpty ==
    pc = "returned" => result.answer # ""

\* as amended: the returned answer is the completion text, empty or not; a
\* failed run returns nothing
C9_ReturnsCompletionOrFails ==
    /\ pc = "returned" =>
          /\ trace[Len(trace)] = "generate"
          /\ calls[Len(calls)] = "llm.answer"
          /\ result.answer = completion
          /\ completion \in Answers
          /\ result.query_type = analyzed.query_type
          /\ result.query = analyzed.query
    /\ pc # "returned" => result = initial_state(state.query)

\* a run returned to its caller with an empty answer
C9_Witness ==
    /\ pc = "returned"
    /\ completion = ""
    /\ result.answer = ""

(***************************************************************************)
(* C10: when every external call returns, every run eventually reaches the *)
(* terminal state after generate and returns the final state to the        *)
(* caller; it executes at most 4 nodes.                                    *)
(***************************************************************************)
C10_RunTerminates ==
    /\ [](Len(trace) <= 4)
    /\ [](pc = "returned" => (result = state /\ trace[Len(trace)] = "generate"))
    /\ ([](pc # "failed") => ((pc = "analyze") ~> (pc = "returned")))

\* a returned run that executed four nodes
C10_Witness ==
    /\ pc = "returned"
    /\ Len(trace) = 4
    /\ result = state
    /\ result.answer = "an answer"

(***************************************************************************)
(* C11: in every reachable state of a run, from the initial state to the   *)
(* terminal state and for every classifier response, needs_retrieval and   *)
(* needs_web_search are never both true.                                   *)
(***************************************************************************)
C11_FlagsExclusive ==
    /\ ~(state.needs_retrieval /\ state.needs_web_search)
    /\ ~(analyzed.needs_retrieval /\ analyzed.needs_web_search)
    /\ ~(result.needs_retrieval /\ result.needs_web_search)

\* a retrieval run at its gate: needs_retrieval set, needs_web_search clear
C11_Witness ==
    /\ pc = "quality_check"
    /\ state.needs_retrieval
    /\ ~state.needs_web_search
    /\ state.retrieved_docs # <<>>

(***************************************************************************)
(* C12: the length of retrieved_docs is at most min(N, 3), N the number of *)
(* documents in the store when retrieve_documents ran; the store is asked  *)
(* for 3 neighbours and the returned list is kept.                         *)
(***************************************************************************)
C12_AtMostThreeDocuments ==
    /\ Len(state.retrieved_docs) <= 3
    /\ Len(state.retrieved_docs) <= count(store)
    /\ \A i \in 1..Len(state.retrieved_docs) :
          \E k \in 1..count(store) : store[k].document = state.retrieved_docs[i]
    /\ "store.query" \in Range(calls) /\ calls[Len(calls)] # "raised"
          => (Len(state.retrieved_docs) = 3 \/ Len(state.retrieved_docs) = count(store))

\* a store of four documents answered the query with three
C12_Witness ==
    /\ count(store) = 4
    /\ pc = "quality_check"
    /\ Len(state.retrieved_docs) = 3

(***************************************************************************)
(* C13: the reasoning trace only grows during a run: for every node step   *)
(* the trace before the step is a prefix of the trace after it.            *)
(***************************************************************************)
C13_ReasoningGrows ==
    [][ IsPrefix(state.reasoning, state'.reasoning) ]_vars

\* the gate has appended its note to the two sentences of analyze
C13_Witness ==
    /\ pc = "returned"
    /\ Len(result.reasoning) = 3
    /\ result.reasoning[1].note = "Query classified as"
    /\ result.reasoning[3].note = "Low confidence in retrieval. Using LLM directly."

(***************************************************************************)
(* C16: when an external call fails at any node, the run fails at once: no *)
(* later node is executed, the failed call is not retried, and no terminal *)
(* state is returned to the caller.                                        *)
(***************************************************************************)
CallRaised == "raised" \in Range(calls)

C16_FailureEndsRun ==
    /\ [](CallRaised =>
            /\ pc = "failed"
            /\ calls[Len(calls)] = "raised"
            /\ \A i, j \in 1..Len(calls) : i # j => calls[i] # calls[j]
            /\ trace[Len(trace)] \in {"analyze", "retrieve", "generate"}
            /\ \A i, j \in 1..Len(trace) : i # j => trace[i] # trace[j]
            /\ result = initial_state(state.query))
    /\ [][ CallRaised => UNCHANGED <<pc, state, trace, calls, result>> ]_vars

\* the vector query raised in retrieve, after count and encode had returned
C16_Witness ==
    /\ pc = "failed"
    /\ trace = << "analyze", "retrieve" >>
    /\ calls = << "llm.classify", "store.count", "embed.encode", "store.query", "raised" >>
    /\ result.answer = ""

(***************************************************************************)
(* C20: web_search always yields the same two placeholder snippets and     *)
(* sets confidence to exactly 0.5, for every query; every run on the web   *)
(* branch ends with confidence 0.5 and every run on the direct branch with *)
(* confidence 0.0.                                                         *)
(***************************************************************************)
C20_WebSearchStub ==
    /\ "web_search" \in Range(trace) =>
          /\ Len(state.web_results) = 2
          /\ state.web_results[1].text = "[Web Search Placeholder] Results for:"
          /\ state.web_results[1].query = state.query
          /\ state.web_results[2].text = "Integrate Tavily API for real web search"
          /\ 2 * state.confidence = One
    /\ pc = "returned" /\ trace = << "analyze", "web_search", "generate" >> =>
          2 * result.confidence = One
    /\ pc = "returned" /\ trace = << "analyze", "generate" >> =>
          result.confidence = 0

\* a completed web run
C20_Witness ==
    /\ pc = "returned"
    /\ trace = << "analyze", "web_search", "generate" >>
    /\ Len(result.web_results) = 2
    /\ 2 * result.confidence = One

(***************************************************************************)
(* C19: generate_answer picks the prompt by query_type: for greeting and   *)
(* for calculation the user content is the raw query alone, with no        *)
(* retrieved document or web result in it; for every other query_type the  *)
(* user content is the context block followed by the question, under the   *)
(* grounded-QA system prompt.                                              *)
(***************************************************************************)
C19_PromptByQueryType ==
    prompt # NoPrompt =>
        /\ prompt.user.question = state.query
        /\ state.query_type = GREETING =>
              /\ prompt.system = "friendly assistant"
              /\ prompt.user.context = <<>>
        /\ state.query_type = CALCULATION =>
              /\ prompt.system = "helpful calculator"
              /\ prompt.user.context = <<>>
        /\ state.query_type \notin {GREETING, CALCULATION} =>
              /\ prompt.system = "grounded assistant"
              /\ prompt.user.context # <<>>
              /\ \A i \in 1..Len(state.retrieved_docs) :
                    \E k \in 1..Len(prompt.user.context) :
                        /\ prompt.user.context[k].label = "[Doc i]"
                        /\ prompt.user.context[k].text = state.retrieved_docs[i]
              /\ \A i \in 1..Len(state.web_results) :
                    \E k \in 1..Len(prompt.user.context) :
                        /\ prompt.user.context[k].label = "[Result i]"
                        /\ prompt.user.context[k].text = state.web_results[i].text

\* a calculation whose state held documents and web results was answered
\* from the raw query
C19_Witness ==
    /\ pc = "returned"
    /\ state.query_type = CALCULATION
    /\ Len(state.retrieved_docs) = 2
    /\ state.web_results # <<>>
    /\ prompt.system = "helpful calculator"
    /\ prompt.user.context = <<>>

(***************************************************************************)
(* C17: POST /upload-pdf with a file whose name does not end in ".pdf" is  *)
(* rejected with status 400 ("Only PDF files are allowed") before any PDF  *)
(* parsing or ingestion, and the store's document count is unchanged.      *)
(* The names that do not end in ".pdf" are listed by hand.                 *)
(***************************************************************************)
NotPdfNames ==
    { << "a", ".", "t", "x", "t" >>,
      << "a", ".", "P", "D", "F" >>,
      << "p", "d", "f" >>,
      << "a", ".", "p", "d", "f", ".", "e", "x", "e" >>,
      <<>> }

C17_NonPdfRejectedWith400 ==
    /\ [](http.endpoint = "/upload-pdf" /\ http.filename \in NotPdfNames =>
            /\ http.status = 400
            /\ http.detail.text = "Only PDF files are allowed"
            /\ calls = <<>>)
    /\ [][ http'.endpoint = "/upload-pdf" /\ http'.filename \in NotPdfNames
           => store' = store ]_vars

(***************************************************************************)
(* C18: POST /ask on a store with zero documents returns status 400 ("No   *)
(* documents in knowledge base...") and performs no embedding, vector      *)
(* query or LLM call; the 400 reaches the client as 400 and is not turned  *)
(* into a 500 by the generic handler, while any other exception becomes a  *)
(* 500.                                                                    *)
(***************************************************************************)
C18_AskOnEmptyStore ==
    http.endpoint = "/ask" =>
        /\ (count(store) = 0 /\ ~CallRaised =>
              /\ http.status = 400
              /\ http.detail =
                    Detail(0, "No documents in knowledge base. Please upload documents first.")
              /\ calls = << "store.count" >>
              /\ http.body = NoBody)
        /\ (count(store) = 0 =>
              /\ "embed.encode" \notin Range(calls)
              /\ "store.query" \notin Range(calls)
              /\ "llm.answer" \notin Range(calls))
        /\ (CallRaised => http.status = 500)
        /\ (count(store) > 0 /\ ~CallRaised => http.status = 200)

\* /ask was answered with 400 on a store emptied by /clear
C18_Witness ==
    /\ http.endpoint = "/ask"
    /\ http.status = 400
    /\ count(store) = 0
    /\ calls = << "store.count" >>

(***************************************************************************)
(* C14: under every interleaving of concurrent add_documents calls on the  *)
(* same store, no two documents are assigned the same ID and no ID is      *)
(* skipped: reading collection.count() and the following collection.add    *)
(* happen as one serialized step.                                          *)
(***************************************************************************)
C14_SerializedIngestion ==
    /\ \A w1, w2 \in Writers :
          (w1 # w2 /\ writers[w1].pc # "idle" /\ writers[w2].pc # "idle") =>
              Range(writers[w1].ids) \cap Range(writers[w2].ids) = {}
    /\ \A w \in Writers :
          writers[w].pc \in {"counted", "encoded"} =>
              writers[w].start_id = count(store)
    /\ \A i \in 1..Len(store) : store[i].id = i - 1
    /\ \A w \in Writers : writers[w].pc # "failed"

(***************************************************************************)
(* C15: concurrent ask runs are independent: under every interleaving of   *)
(* the node steps of two runs on one instance, each run's terminal state   *)
(* equals the one it would produce alone given the same external           *)
(* responses, and no ask run changes the store's contents or count.        *)
(***************************************************************************)
\* one run on its own: the nodes applied in graph order to its own inputs
RunAlone(query, response, cnt, results, answer) ==
    LET s1 == analyze_query(initial_state(query), response)
        s2 == IF s1.needs_retrieval
              THEN check_quality(retrieve_documents(s1, cnt, results))
              ELSE IF s1.needs_web_search
              THEN web_search(s1)
              ELSE s1
    IN  generate_answer(s2, answer)

C15_RunsIndependent ==
    /\ [](\A r \in Runs :
            runs[r].pc = "returned" =>
                runs[r].result = RunAlone(runs[r].result.query, runs[r].reply,
                                          runs[r].count, runs[r].results,
                                          runs[r].completion))
    /\ [][ \A r \in Runs : runs[r].pc = "returned" => runs'[r] = runs[r] ]_vars
    /\ [][ runs' # runs => store' = store ]_vars

\* a retrieval run and a web run, asked with different queries, both returned
C15_Witness ==
    /\ runs["r1"].pc = "returned"
    /\ runs["r2"].pc = "returned"
    /\ runs["r1"].result.query = "q1"
    /\ runs["r2"].result.query = "q2"
    /\ Len(runs["r1"].result.retrieved_docs) = 2
    /\ runs["r2"].result.web_results # <<>>
    /\ count(store) = 2

(***************************************************************************)
(* C21: within one run, query never changes after the initial state, and   *)
(* query_type is written only by analyze: in every state after analyze, up *)
(* to the terminal state, query_type equals the value analyze set.         *)
(***************************************************************************)
C21_QueryAndTypeFixed ==
    /\ [](pc # "idle" => state.query = analyzed.query)
    /\ [](pc = "returned" => result.query = analyzed.query)
    /\ [](AnalyzeDone =>
            /\ state.query_type = analyzed.query_type
            /\ state.query_type = lower(strip(reply)))
    /\ [](pc = "returned" => result.query_type = analyzed.query_type)
    /\ [][ pc # "idle" => state'.query = state.query ]_vars
    /\ [][ pc \notin {"idle", "analyze"} => state'.query_type = state.query_type ]_vars

\* a run whose retrieval the gate rejected returned with the type analyze set
C21_Witness ==
    /\ pc = "returned"
    /\ trace = << "analyze", "retrieve", "quality_check", "generate" >>
    /\ ~result.needs_retrieval
    /\ result.query = "q2"
    /\ result.query_type = FACTUAL
    /\ reply = <<" ", "F", "a", "c", "t", "u", "a", "l", "\n">>

(***************************************************************************)
(* C22: when the store returns a non-empty distance list d1..dn (n <= 3),  *)
(* retrieve_documents stores confidence = 1 - (d1 + ... + dn) / n, the     *)
(* mean taken over exactly the returned neighbours; when the store is      *)
(* non-empty but the returned distance list is empty, confidence is 0.0.   *)
(* Written without division: n * (1 - confidence) = d1 + ... + dn.         *)
(***************************************************************************)
ReturnedDistances ==
    IF found.distances = <<>> THEN <<>> ELSE found.distances[1]

C22_ConfidenceIsMeanSimilarity ==
    (pc = "quality_check" /\ count(store) > 0) =>
        LET d == ReturnedDistances
        IN  /\ Len(d) <= 3
            /\ Len(d) = 1 => One - state.confidence = d[1]
            /\ Len(d) = 2 => 2 * (One - state.confidence) = d[1] + d[2]
            /\ Len(d) = 3 => 3 * (One - state.confidence) = d[1] + d[2] + d[3]
            /\ Len(d) = 0 => state.confidence = 0

\* two neighbours at distances 0.1 and 0.7 gave confidence 0.6
C22_Witness ==
    /\ pc = "quality_check"
    /\ count(store) = 2
    /\ ReturnedDistances = << 6, 42 >>
    /\ 10 * state.confidence = 6 * One

\* a non-empty store answered with an empty distance list
C22_WitnessEmpty ==
    /\ pc = "quality_check"
    /\ count(store) > 0
    /\ ReturnedDistances = <<>>
    /\ state.confidence = 0

(***************************************************************************)
(* C23: each node changes only its own fields and leaves every other field *)
(* of the state unchanged: retrieve changes only retrieved_docs and        *)
(* confidence; web_search only web_results and confidence; quality_check   *)
(* only needs_retrieval and reasoning; generate only answer; analyze only  *)
(* query_type, needs_retrieval, needs_web_search and reasoning.            *)
(***************************************************************************)
Fields ==
    {"query", "query_type", "needs_retrieval", "needs_web_search",
     "retrieved_docs", "web_results", "answer", "confidence", "reasoning",
     "iteration"}

\* the fields each node may write, as the claim lists them
OwnFields(node) ==
    CASE node = "analyze"       -> {"query_type", "needs_retrieval",
                                    "needs_web_search", "reasoning"}
      [] node = "retrieve"      -> {"retrieved_docs", "confidence"}
      [] node = "web_search"    -> {"web_results", "confidence"}
      [] node = "quality_check" -> {"needs_retrieval", "reasoning"}
      [] node = "generate"      -> {"answer"}

C23_NodesWriteOwnFields ==
    [][ (pc \in {"analyze", "retrieve", "web_search", "quality_check", "generate"})
        => (\A f \in Fields \ OwnFields(pc) : state'[f] = state[f]) ]_vars

\* generate has written the answer of a run whose retrieval the gate rejected
C23_Witness ==
    /\ pc = "END"
    /\ trace = << "analyze", "retrieve", "quality_check", "generate" >>
    /\ state.answer = "an answer"
    /\ Len(state.retrieved_docs) = 3
    /\ Len(state.reasoning) = 3
    /\ ~state.needs_retrieval
    /\ state.iteration = 0

(***************************************************************************)
(* C24: at the terminal state of every run, the reasoning trace holds      *)
(* exactly one entry per node visited in that run (2, 3 or 4 entries       *)
(* depending on the branch): every node, including retrieve, web_search    *)
(* and generate, appends its own decision note.  An entry is what one node *)
(* wrote: the two sentences of analyze are one entry, the sentence of the  *)
(* gate is one entry.                                                      *)
(***************************************************************************)
Entries(reasoning) ==
    Cardinality({ i \in 1..Len(reasoning) :
                    reasoning[i].note \in
                        {"Query classified as",
                         "Low confidence in retrieval. Using LLM directly."} })

C24_OneEntryPerNode ==
    pc \in {"END", "returned"} =>
        /\ Entries(state.reasoning) = Len(trace)
        /\ Entries(state.reasoning) \in {2, 3, 4}

\* as amended: the reasoning at the terminal state is the entry of analyze,
\* followed by the entry of the gate exactly when the gate rejected the
\* retrieval; retrieve, web_search and generate write nothing to it
GateRejected ==
    /\ "quality_check" \in Range(trace)
    /\ pc # "quality_check"
    /\ 10 * state.confidence < 3 * One
    /\ state.retrieved_docs # <<>>

C24_EntriesOfAnalyzeAndGate ==
    /\ [](pc \in {"END", "returned"} =>
            /\ SubSeq(state.reasoning, 1, 2) = analyzed.reasoning
            /\ state.reasoning[1].note = "Query classified as"
            /\ state.reasoning[1].arg = state.query_type
            /\ Entries(state.reasoning) = IF GateRejected THEN 2 ELSE 1
            /\ Len(state.reasoning) = IF GateRejected THEN 3 ELSE 2
            /\ GateRejected =>
                  state.reasoning[3].note =
                      "Low confidence in retrieval. Using LLM directly.")
    /\ [][ (pc \in {"retrieve", "web_search", "generate"})
           => state'.reasoning = state.reasoning ]_vars

\* a run of four nodes ended with two entries
C24_Witness ==
    /\ pc = "END"
    /\ Len(trace) = 4
    /\ GateRejected
    /\ Entries(state.reasoning) = 2
    /\ state.answer = ""

(***************************************************************************)
(* C25: in every reachable state of a run, web_results is non-empty only   *)
(* if web_search has been executed in that run, and retrieved_docs is      *)
(* non-empty only if retrieve has been executed on a non-empty store;      *)
(* therefore retrieved_docs and web_results are never both non-empty, and  *)
(* the answer is empty in every state before generate completes.           *)
(***************************************************************************)
C25_EvidenceOnlyFromItsNode ==
    /\ state.web_results # <<>> => "web_search" \in Range(trace)
    /\ state.retrieved_docs # <<>> =>
          ("retrieve" \in Range(trace) /\ count(store) > 0)
    /\ ~(state.retrieved_docs # <<>> /\ state.web_results # <<>>)
    /\ ~(result.retrieved_docs # <<>> /\ result.web_results # <<>>)
    /\ pc \notin {"END", "returned"} => state.answer = ""
    /\ "generate" \notin Range(trace) => state.answer = ""

\* generate is about to run on three documents, no web result and no answer
C25_Witness ==
    /\ pc = "generate"
    /\ Len(state.retrieved_docs) = 3
    /\ state.web_results = <<>>
    /\ state.answer = ""
    /\ ~state.needs_retrieval
    /\ count(store) = 3

(***************************************************************************)
(* C26: every run that reaches the terminal state has issued exactly two   *)
(* LLM completion requests, the classification request first and the       *)
(* answer request last, with any embedding or vector-store call strictly   *)
(* between them; the embedding and vector query happen only on the         *)
(* retrieval branch with a non-empty store, at most once each.             *)
(***************************************************************************)
Occurrences(call) == Cardinality({ i \in 1..Len(calls) : calls[i] = call })

C26_TwoCompletionsPerRun ==
    /\ pc \in {"END", "returned"} =>
          /\ Len(calls) >= 2
          /\ calls[1] = "llm.classify"
          /\ calls[Len(calls)] = "llm.answer"
          /\ Occurrences("llm.classify") = 1
          /\ Occurrences("llm.answer") = 1
          /\ \A i \in 1..Len(calls) :
                calls[i] \in {"embed.encode", "store.count", "store.query"}
                    => (1 < i /\ i < Len(calls))
    /\ Occurrences("embed.encode") <= 1
    /\ Occurrences("store.query") <= 1
    /\ ("embed.encode" \in Range(calls) \/ "store.query" \in Range(calls)) =>
          /\ count(store) > 0
          /\ Len(trace) >= 2
          /\ trace[2] = "retrieve"
          /\ analyzed.needs_retrieval

\* a retrieval run on a non-empty store has issued its five calls
C26_Witness ==
    /\ pc = "returned"
    /\ calls = << "llm.classify", "store.count", "embed.encode", "store.query",
                  "llm.answer" >>
    /\ count(store) = 1

(***************************************************************************)
(* C27: the context built by generate_answer lists the retrieved documents *)
(* first, numbered from 1 in their retrieved order, and then the web       *)
(* results, numbered from 1 in their order; when both lists are empty the  *)
(* context is the fixed sentence 'No specific context available.'.  The    *)
(* context is observed in the request of the grounded prompt, which        *)
(* carries it.                                                             *)
(***************************************************************************)
C27_ContextOrder ==
    (prompt # NoPrompt /\ state.query_type \notin {GREETING, CALCULATION}) =>
        LET ctx == prompt.user.context
            D   == Len(state.retrieved_docs)
            W   == Len(state.web_results)
            dl  == IF D > 0 THEN D + 1 ELSE 0
            wl  == IF W > 0 THEN W + 1 ELSE 0
        IN  /\ (D = 0 /\ W = 0) =>
                  ctx = << [label |-> "No specific context available.",
                            n |-> 0, text |-> ""] >>
            /\ (D > 0 \/ W > 0) => Len(ctx) = dl + wl
            /\ D > 0 => ctx[1].label = "Knowledge Base Context:"
            /\ \A i \in 1..D :
                  ctx[1 + i] = [label |-> "[Doc i]", n |-> i,
                                text |-> state.retrieved_docs[i]]
            /\ W > 0 => ctx[dl + 1].label = "\nWeb Search Results:"
            /\ \A j \in 1..W :
                  ctx[dl + 1 + j] = [label |-> "[Result i]", n |-> j,
                                     text |-> state.web_results[j].text]

\* the request carried two documents, docB before docA, and then two web results
C27_Witness ==
    /\ pc = "END"
    /\ state.query_type = GENERAL
    /\ state.retrieved_docs = << "docB", "docA" >>
    /\ Len(state.web_results) = 2
    /\ Len(prompt.user.context) = 6
    /\ prompt.user.context[2].text = "docB"
    /\ prompt.user.context[5].n = 1

(***************************************************************************)
(* C28: the iteration counter is 0 in every reachable state of every run:  *)
(* no node and no transition of the workflow advances it, and no retry     *)
(* loop depends on it (the node that follows is the same whatever value    *)
(* the counter is given, and no node runs twice).                          *)
(***************************************************************************)
C28_IterationStaysZero ==
    /\ state.iteration = 0
    /\ analyzed.iteration = 0
    /\ result.iteration = 0
    /\ \A node \in {"analyze", "retrieve", "web_search", "quality_check", "generate"},
          k \in 0..3 :
          next_node(node, [state EXCEPT !.iteration = k]) = next_node(node, state)
    /\ \A i, j \in 1..Len(trace) : i # j => trace[i] # trace[j]

\* a run whose retrieval was rejected returned without a retry, counter at 0
C28_Witness ==
    /\ pc = "returned"
    /\ result.iteration = 0
    /\ analyzed.needs_retrieval
    /\ ~result.needs_retrieval
    /\ Len(trace) = 4
    /\ result.answer = "an answer"

(***************************************************************************)
(* C29: after any sequential (non-overlapping) sequence of successful      *)
(* add_documents and clear_database calls on RAGService, the stored IDs    *)
(* are exactly doc_0 .. doc_(count-1) with no duplicates: each add assigns *)
(* IDs starting at the current count, and after a clear the count is 0 and *)
(* numbering restarts at doc_0.                                            *)
(***************************************************************************)
AddSucceeded(response) ==
    /\ response.endpoint \in {"/upload-pdf", "/add-document"}
    /\ response.status = 200

C29_SequentialIds ==
    /\ []({ store[i].id : i \in 1..Len(store) } = 0..(Len(store) - 1))
    /\ [](\A i, j \in 1..Len(store) : i # j => store[i].id # store[j].id)
    /\ [][ AddSucceeded(http') =>
             /\ Len(store') = Len(store) + http'.body.added
             /\ http'.body.added >= 1
             /\ SubSeq(store', 1, Len(store)) = store
             /\ \A i \in 1..http'.body.added :
                   store'[Len(store) + i].id = Len(store) + (i - 1) ]_vars
    /\ [][ (http'.endpoint = "/clear" /\ http'.status = 200) => Len(store') = 0 ]_vars
    /\ [][ (Len(store) = 0 /\ AddSucceeded(http')) => store'[1].id = 0 ]_vars

\* an upload of two pages brought the store to four documents, doc_0 .. doc_3
C29_Witness ==
    /\ http.endpoint = "/upload-pdf"
    /\ http.status = 200
    /\ http.body.added = 2
    /\ Len(store) = 4
    /\ store[3].id = 2
    /\ store[4].id = 3

\* the store was cleared by a successful DELETE /clear
C29_WitnessCleared ==
    /\ http.endpoint = "/clear"
    /\ http.status = 200
    /\ Len(store) = 0
    /\ calls = << "store.delete_collection", "store.create_collection" >>

====
